---- MODULE Spec2Model ----
(***************************************************************************)
(* A model of flashcard_web_app.py: the vocabulary store kept in           *)
(* swedish_words.json, the Streamlit session state of one drill session    *)
(* (cooldown map, current word, reveal flag, ratio mixture), and one       *)
(* action per script run of main(), i.e. per button press or page view.    *)
(*                                                                         *)
(* Text is modelled as tuples of one-character strings so that str.lower   *)
(* is computed character by character.  Ratios are kept in hundredths      *)
(* (0.6 is 60), and int(len(pool) * ratio) is (len(pool) * ratio) \div 100.*)
(* Items of a word list are identified by their index in the list: two     *)
(* dicts with equal fields at different indices are different items.       *)
(***************************************************************************)
EXTENDS Integers, Sequences, FiniteSets, TLC

\* ------------------------------------------------------------------ bounds

\* The clock advances at most MaxTicks times.
MaxTicks == 1

\* A session makes at most MaxRuns script runs.
MaxRuns == 3

\* The vocabularies select_random_mixture is applied to hold at most
\* MaxMixWords items.
MaxMixWords == 3

\* Each of the concurrent sessions makes at most MaxJobs script runs.
MaxJobs == 1

\* load_words is called at most MaxLoads times in a row, on stores of at most
\* MaxLoadWords items.
MaxLoads == 2
MaxLoadWords == 2

\* ---------------------------------------------------------- program constants

COOLDOWN_SECONDS == 300

LABELS == <<"0%", "25%", "50%", "75%", "100%">>

LabelSet == {LABELS[i] : i \in DOMAIN LABELS}

\* st.session_state.ratios as first set by main(), in hundredths.
DefaultRatios ==
  [l \in LabelSet |->
     CASE l = "0%" -> 60 [] l = "25%" -> 20 [] l = "50%" -> 15
       [] l = "75%" -> 0 [] OTHER -> 5]

\* ------------------------------------------------------------------- text

Hund == <<"H", "u", "n", "d">>
hund == <<"h", "u", "n", "d">>
hand == <<"h", "a", "n", "d">>
katt == <<"k", "a", "t", "t">>
dog  == <<"d", "o", "g">>
cat  == <<"c", "a", "t">>
Empty == <<>>

\* str.lower() on one character of the alphabet the inputs use.
LowerChar(c) == CASE c = "H" -> "h" [] c = "D" -> "d" [] OTHER -> c

\* str.lower()
Lower(s) == [i \in DOMAIN s |-> LowerChar(s[i])]

\* ----------------------------------------------------- inputs of the handlers

\* What the user types into Add New Word: the Swedish word, the English
\* meaning, the category.  Hund and hund differ in case only; hand is spelled
\* alike in both languages; one form is sent with a field left empty.
AddInputs ==
  {<<Hund, dog, "animals">>, <<hund, dog, "animals">>, <<hand, hand, "body">>,
   <<Empty, dog, "animals">>}

\* The values the admin gives a ratio (hundredths) and the labels whose ratio
\* the admin changes.
RatioInputs == {60, 100}
RatioLabelInputs == {"0%"}

\* Bulk update: the filters the admin sets (labels selected, minimum seen,
\* maximum seen; the first is the form's default), the target label and the
\* target seen value.
BulkFilterInputs == {<<{}, 0, 10>>, <<{"75%"}, 1, 1>>}
BulkLabelInputs == {"75%"}
BulkSeenInputs == {1}

\* The time steps between two script runs.
TickInputs == {COOLDOWN_SECONDS - 1, COOLDOWN_SECONDS, COOLDOWN_SECONDS + 1}

\* ------------------------------------------------------------------ state

VARIABLES
  file,           \* swedish_words.json: [exists, data], data a list of items
  recently_seen,  \* st.session_state.recently_seen: exposure key -> timestamp
  current_word,   \* st.session_state.current_word: None or an item
  reveal,         \* st.session_state.reveal
  ratios,         \* st.session_state.ratios: label -> weight (hundredths)
  now,            \* time.time()
  ticks,          \* how many times the clock advanced
  runs,           \* how many script runs the session made
  last,           \* history: the last script run, its inputs and outcome
  shown,          \* history: <<field, index>> -> time of the item's last
                  \* mixture draw in the drill direction of that field
  in_memory,      \* the word list the last script run held when it ended
  mixture,        \* the list select_random_mixture returned (SpecMix)
  sess,           \* the concurrent sessions (SpecConc)
  ideal,          \* history: the store with every completed update applied
  stale           \* history: some save wrote a list read before another
                  \* session's save

vars ==
  <<file, recently_seen, current_word, reveal, ratios, now, ticks, runs, last, shown,
    in_memory, mixture, sess, ideal, stale>>

\* The state of one drill session, of the mixture check, of the concurrent sessions.
drillVars ==
  <<recently_seen, current_word, reveal, ratios, now, ticks, runs, last, shown, in_memory>>
mixVars == <<mixture>>
concVars == <<sess, ideal, stale>>

None == [none |-> TRUE]

\* The values of the variables a specification does not use.
NoMixture == <<0>>
NoSessions == <<>>

NoEntries == [k \in {} |-> 0]

Max(a, b) == IF a >= b THEN a ELSE b
Min(a, b) == IF a <= b THEN a ELSE b

\* ------------------------------------------------------------ vocabulary store

NoFile == [exists |-> FALSE, data |-> <<>>]

\* The normalization with the seen counter set to 0 whether present or not.
NormalizeClearsSeen(w) ==
  [swedish |-> w.swedish, english |-> w.english, category |-> w.category,
   label |-> IF "label" \in DOMAIN w THEN w.label ELSE "0%",
   seen |-> 0]

\* The defaults load_words gives an item that lacks "label" or "seen".
Normalize(w) ==
  [swedish |-> w.swedish, english |-> w.english, category |-> w.category,
   label |-> IF "label" \in DOMAIN w THEN w.label ELSE "0%",
   seen |-> IF "seen" \in DOMAIN w THEN w.seen ELSE 0]

\* The list load_words returns.
load_words(f) ==
  IF ~f.exists THEN <<>> ELSE [i \in DOMAIN f.data |-> Normalize(f.data[i])]

\* A save that leaves out the last item.
save_words_partial(words) ==
  [exists |-> TRUE, data |-> SubSeq(words, 1, Len(words) - 1)]

save_words(words) == [exists |-> TRUE, data |-> words]

\* A load_words that does not save what it normalized.
FileUntouched(f) == f

\* The file load_words leaves behind: nothing is written when there is no file.
FileAfterLoad(f) == IF ~f.exists THEN f ELSE save_words(load_words(f))

\* word_exists comparing the keys as typed, without lower().
word_exists_cased(f, swedish_word) ==
  \E i \in DOMAIN load_words(f) : load_words(f)[i].swedish = swedish_word

word_exists(f, swedish_word) ==
  \E i \in DOMAIN load_words(f) :
    Lower(load_words(f)[i].swedish) = Lower(swedish_word)

NewWord(swedish, english, category) ==
  [swedish |-> swedish, english |-> english, category |-> category,
   label |-> "0%", seen |-> 0]

\* add_word putting the new item at the head of the list.
add_word_front(f, swedish, english, category) ==
  IF word_exists(f, swedish)
  THEN [ret |-> FALSE, file |-> FileAfterLoad(f), words |-> load_words(f)]
  ELSE LET words == <<NewWord(swedish, english, category)>> \o load_words(FileAfterLoad(f))
       IN [ret |-> TRUE, file |-> save_words(words), words |-> words]

\* add_word on file f: the value returned, the file left behind and the list
\* the call held last (the one word_exists loaded, or the one appended to).
add_word(f, swedish, english, category) ==
  IF word_exists(f, swedish)
  THEN [ret |-> FALSE, file |-> FileAfterLoad(f), words |-> load_words(f)]
  ELSE LET words == Append(load_words(FileAfterLoad(f)),
                           NewWord(swedish, english, category))
       IN [ret |-> TRUE, file |-> save_words(words), words |-> words]

\* reset_all_labels clearing the seen counters as well.
reset_all_labels_and_seen(words) ==
  [i \in DOMAIN words |-> [words[i] EXCEPT !.label = "0%", !.seen = 0]]

reset_all_labels(words) == [i \in DOMAIN words |-> [words[i] EXCEPT !.label = "0%"]]

reset_all_seen(words) == [i \in DOMAIN words |-> [words[i] EXCEPT !.seen = 0]]

\* ------------------------------------------------------------ selection engine

pool(words, rt) == {i \in DOMAIN words : words[i].label \in DOMAIN rt}

bucket(words, rt, label) == {i \in pool(words, rt) : words[i].label = label}

\* The count rounded up instead of down.
count_ceiling(words, rt, label) ==
  Max(1, (Cardinality(pool(words, rt)) * rt[label] + 99) \div 100)

\* The count without the floor of 1.
count_unfloored(words, rt, label) == (Cardinality(pool(words, rt)) * rt[label]) \div 100

count(words, rt, label) == Max(1, (Cardinality(pool(words, rt)) * rt[label]) \div 100)

\* random.sample(lw, k) as a set: any k elements of lw.
Samples(lw, k) == {T \in SUBSET lw : Cardinality(T) = k}

\* The sets of items the loop of select_random_mixture can collect over the
\* labels not yet visited.
RECURSIVE MixSets(_, _, _)
MixSets(words, rt, labels) ==
  IF labels = <<>> THEN {{}}
  ELSE LET lw == bucket(words, rt, Head(labels))
           k == Min(Cardinality(lw), count(words, rt, Head(labels)))
       IN {T \cup R : T \in Samples(lw, k), R \in MixSets(words, rt, Tail(labels))}

\* The orders random.shuffle can leave a list of the elements of S in.
Perms(S) ==
  {p \in [1..Cardinality(S) -> S] : \A i, j \in 1..Cardinality(S) : p[i] = p[j] => i = j}

\* The keys of the ratio dict in iteration order.
RatioKeys(rt) == SelectSeq(LABELS, LAMBDA l : l \in DOMAIN rt)

\* Every list select_random_mixture can return, as lists of indices into words.
select_random_mixture(words, rt) ==
  UNION {Perms(S) : S \in MixSets(words, rt, RatioKeys(rt))}

\* The pruning with the window one second short.
PruneEarly(rs, t) ==
  [k \in {x \in DOMAIN rs : t - rs[x] < COOLDOWN_SECONDS - 1} |-> rs[k]]

\* The cooldown map with the entries of COOLDOWN_SECONDS or older removed.
Prune(rs, t) == [k \in {x \in DOMAIN rs : t - rs[x] < COOLDOWN_SECONDS} |-> rs[k]]

\* The stamp written over every entry of the map.
StampAll(rs, k, t) == [x \in DOMAIN rs \cup {k} |-> t]

Stamp(rs, k, t) == [x \in DOMAIN rs \cup {k} |-> IF x = k THEN t ELSE rs[x]]

\* available_words keeping the candidates in cooldown instead of the others.
available_words_inverted(words, mix, rs, field) ==
  SelectSeq(mix, LAMBDA i : words[i][field] \in DOMAIN rs)

\* available_words without the cooldown filter.
available_words_unfiltered(words, mix, rs, field) == mix

\* available_words: the candidates of mix whose exposure key is not in rs.
available_words(words, mix, rs, field) ==
  SelectSeq(mix, LAMBDA i : words[i][field] \notin DOMAIN rs)

\* ------------------------------------------------------------ bulk admin mutator

\* The eligibility with both filters required.
EligibleBoth(w, selected_labels, min_seen, max_seen) ==
  LET label_match == selected_labels = {} \/ w.label \in selected_labels
      seen_match == min_seen <= w.seen /\ w.seen <= max_seen
  IN label_match /\ seen_match

Eligible(w, selected_labels, min_seen, max_seen) ==
  LET label_match == selected_labels = {} \/ w.label \in selected_labels
      seen_match == min_seen <= w.seen /\ w.seen <= max_seen
  IN label_match \/ seen_match

\* The update applied to every item, checked or not.
ApplyBulkToAll(words, selected_indices, new_bulk_label, new_seen_value) ==
  [i \in DOMAIN words |->
     [words[i] EXCEPT !.label = new_bulk_label, !.seen = new_seen_value]]

ApplyBulk(words, selected_indices, new_bulk_label, new_seen_value) ==
  [i \in DOMAIN words |->
     IF i \in selected_indices
     THEN [words[i] EXCEPT !.label = new_bulk_label, !.seen = new_seen_value]
     ELSE words[i]]

\* ------------------------------------------------------------------ Init

\* A store written by an earlier version of the program: no label, no seen.
LegacyStore ==
  [exists |-> TRUE,
   data |-> <<[swedish |-> hand, english |-> hand, category |-> "body"]>>]

\* A store left by earlier sessions; its second item lacks the seen counter.
SavedStore ==
  [exists |-> TRUE,
   data |-> <<[swedish |-> katt, english |-> cat, category |-> "animals",
               label |-> "75%", seen |-> 2],
              [swedish |-> hand, english |-> hand, category |-> "body",
               label |-> "0%"]>>]

\* The stores a session can find when it starts.
InitStores == {NoFile, LegacyStore, SavedStore}

Init ==
  /\ file \in InitStores
  /\ recently_seen = NoEntries
  /\ current_word = None
  /\ reveal = FALSE
  /\ ratios = DefaultRatios
  /\ now = 0
  /\ ticks = 0
  /\ runs = 0
  /\ last = [op |-> "start"]
  /\ shown = NoEntries
  /\ in_memory = <<>>
  /\ mixture = NoMixture
  /\ sess = NoSessions
  /\ ideal = <<>>
  /\ stale = FALSE

\* ------------------------------------------------------------------ actions

\* One more script run of main().
Ran == runs < MaxRuns /\ runs' = runs + 1 /\ UNCHANGED <<mixVars, concVars>>

\* Time passes between two script runs.
Tick ==
  \E d \in TickInputs :
    /\ ticks < MaxTicks
    /\ now' = now + d
    /\ ticks' = ticks + 1
    /\ UNCHANGED <<file, recently_seen, current_word, reveal, ratios, runs, last, shown,
                   in_memory, mixVars, concVars>>

\* The other drill direction.
Other(field) == IF field = "swedish" THEN "english" ELSE "swedish"

\* The time since the draw recorded at k in history h; -1 when there is none.
Gap(h, k, t) == IF k \in DOMAIN h THEN t - h[k] ELSE -1

\* A run of a mixture page with "Draw" pressed; field is the exposure key of
\* the page, "swedish" (Learn New Words) or "english" (English to Swedish).
DrawMixed(field) ==
  LET words == load_words(file)
      rs == Prune(recently_seen, now)
  IN /\ Ran
     /\ \E mix \in select_random_mixture(words, ratios) :
          LET available == available_words(words, mix, rs, field) IN
          IF available # <<>>
          THEN \E j \in DOMAIN available :
                 LET selected == available[j]
                     words2 == [words EXCEPT ![selected].seen = @ + 1]
                 IN /\ file' = save_words(words2)
                    /\ in_memory' = words2
                    /\ current_word' = words2[selected]
                    /\ reveal' = FALSE
                    /\ recently_seen' = Stamp(rs, words2[selected][field], now)
                    /\ last' = [op |-> "draw", field |-> field, result |-> "ok",
                                idx |-> selected,
                                gap |-> Gap(shown, <<field, selected>>, now),
                                xgap |-> Gap(shown, <<Other(field), selected>>, now)]
                    /\ shown' = Stamp(shown, <<field, selected>>, now)
          ELSE /\ file' = FileAfterLoad(file)
               /\ in_memory' = words
               /\ recently_seen' = rs
               /\ last' = [op |-> "draw", field |-> field, result |-> "empty"]
               /\ UNCHANGED <<current_word, reveal, shown>>
     /\ UNCHANGED <<ratios, now, ticks>>

LearnDraw == DrawMixed("swedish")

EnglishDraw == DrawMixed("english")

\* A page view that hides the translation again.
ViewMixedHides ==
  /\ Ran
  /\ file' = FileAfterLoad(file)
  /\ in_memory' = load_words(file)
  /\ recently_seen' = Prune(recently_seen, now)
  /\ reveal' = FALSE
  /\ last' = [op |-> "view"]
  /\ UNCHANGED <<current_word, ratios, now, ticks, shown>>

\* A run of a mixture page with no button pressed.
ViewMixed ==
  /\ Ran
  /\ file' = FileAfterLoad(file)
  /\ in_memory' = load_words(file)
  /\ recently_seen' = Prune(recently_seen, now)
  /\ last' = [op |-> "view"]
  /\ UNCHANGED <<current_word, reveal, ratios, now, ticks, shown>>

\* A run of a mixture page with the reveal button pressed, and the rerun.
RevealMixed ==
  /\ Ran
  /\ current_word # None
  /\ ~reveal
  /\ file' = FileAfterLoad(file)
  /\ in_memory' = load_words(file)
  /\ recently_seen' = Prune(recently_seen, now)
  /\ reveal' = TRUE
  /\ last' = [op |-> "reveal"]
  /\ UNCHANGED <<current_word, ratios, now, ticks, shown>>

\* The categories the select box offers; None when there is no word.
Categories(words) ==
  IF words = <<>> THEN {"None"} ELSE {words[i].category : i \in DOMAIN words}

\* A category draw that stamps the cooldown map as a mixture draw does.
CategoryDrawStamps ==
  LET words == load_words(file) IN
  /\ Ran
  /\ \E selected_category \in Categories(words) :
       LET filtered_words == {i \in DOMAIN words : words[i].category = selected_category} IN
       IF filtered_words # {}
       THEN \E selected \in filtered_words :
              LET words2 == [words EXCEPT ![selected].seen = @ + 1] IN
              /\ file' = save_words(words2)
              /\ in_memory' = words2
              /\ current_word' = words2[selected]
              /\ reveal' = FALSE
              /\ recently_seen' = Stamp(recently_seen, words2[selected].swedish, now)
              /\ last' = [op |-> "category_draw", result |-> "ok", idx |-> selected]
       ELSE /\ file' = FileAfterLoad(file)
            /\ in_memory' = words
            /\ last' = [op |-> "category_draw", result |-> "empty"]
            /\ UNCHANGED <<current_word, reveal, recently_seen>>
  /\ UNCHANGED <<ratios, now, ticks, shown>>

\* A run of Flashcards by Category with "Draw Word from Category" pressed.
CategoryDraw ==
  LET words == load_words(file) IN
  /\ Ran
  /\ \E selected_category \in Categories(words) :
       LET filtered_words == {i \in DOMAIN words : words[i].category = selected_category} IN
       IF filtered_words # {}
       THEN \E selected \in filtered_words :
              LET words2 == [words EXCEPT ![selected].seen = @ + 1] IN
              /\ file' = save_words(words2)
              /\ in_memory' = words2
              /\ current_word' = words2[selected]
              /\ reveal' = FALSE
              /\ last' = [op |-> "category_draw", result |-> "ok", idx |-> selected]
       ELSE /\ file' = FileAfterLoad(file)
            /\ in_memory' = words
            /\ last' = [op |-> "category_draw", result |-> "empty"]
            /\ UNCHANGED <<current_word, reveal>>
  /\ UNCHANGED <<recently_seen, ratios, now, ticks, shown>>

\* A run of Flashcards by Category with the reveal button pressed, and the rerun.
CategoryReveal ==
  /\ Ran
  /\ current_word # None
  /\ ~reveal
  /\ file' = FileAfterLoad(file)
  /\ in_memory' = load_words(file)
  /\ reveal' = TRUE
  /\ last' = [op |-> "reveal"]
  /\ UNCHANGED <<recently_seen, current_word, ratios, now, ticks, shown>>

\* A run that only loads: View All Words, a page shown with no button
\* pressed, the Admin Panel with a wrong password.
PlainRun ==
  /\ Ran
  /\ file' = FileAfterLoad(file)
  /\ in_memory' = load_words(file)
  /\ last' = [op |-> "view"]
  /\ UNCHANGED <<recently_seen, current_word, reveal, ratios, now, ticks, shown>>

\* A run of Add New Word with "Add Word" pressed.
AddWord ==
  /\ Ran
  /\ \E in \in AddInputs :
    LET swedish == in[1]
        english == in[2]
        category == in[3]
        f1 == FileAfterLoad(file)
    IN
    /\ IF swedish # Empty /\ english # Empty /\ category # ""
       THEN LET r == add_word(f1, swedish, english, category) IN
            /\ file' = r.file
            /\ in_memory' = r.words
            /\ last' = [op |-> "add", swedish |-> swedish,
                        result |-> IF r.ret THEN "added" ELSE "exists"]
       ELSE /\ file' = f1
            /\ in_memory' = load_words(file)
            /\ last' = [op |-> "add", swedish |-> swedish, result |-> "fill"]
    /\ UNCHANGED <<recently_seen, current_word, reveal, ratios, now, ticks, shown>>

\* A run of the Admin Panel in which a ratio input was changed.
SetRatio ==
  /\ Ran
  /\ \E label \in RatioLabelInputs, v \in RatioInputs :
    /\ file' = FileAfterLoad(file)
    /\ in_memory' = load_words(file)
    /\ ratios' = [ratios EXCEPT ![label] = v]
    /\ last' = [op |-> "ratio"]
    /\ UNCHANGED <<recently_seen, current_word, reveal, now, ticks, shown>>

ResetAllLabels ==
  /\ Ran
  /\ file' = save_words(reset_all_labels(load_words(file)))
  /\ in_memory' = reset_all_labels(load_words(file))
  /\ last' = [op |-> "reset_labels",
              changed |-> {i \in DOMAIN load_words(file) : load_words(file)[i].label # "0%"}]
  /\ UNCHANGED <<recently_seen, current_word, reveal, ratios, now, ticks, shown>>

ResetAllSeen ==
  /\ Ran
  /\ file' = save_words(reset_all_seen(load_words(file)))
  /\ in_memory' = reset_all_seen(load_words(file))
  /\ last' = [op |-> "reset_seen",
              changed |-> {i \in DOMAIN load_words(file) : load_words(file)[i].seen # 0}]
  /\ UNCHANGED <<recently_seen, current_word, reveal, ratios, now, ticks, shown>>

\* A run of the Admin Panel with "Apply Label and Seen Value to Selected"
\* pressed: the filters, the boxes checked among those offered, the targets.
BulkUpdate ==
  LET words == load_words(file) IN
  /\ Ran
  /\ \E filter \in BulkFilterInputs,
     new_bulk_label \in BulkLabelInputs, new_seen_value \in BulkSeenInputs :
    LET offered == {i \in DOMAIN words :
                      Eligible(words[i], filter[1], filter[2], filter[3])}
    IN \E selected_indices \in SUBSET offered :
         /\ file' = save_words(ApplyBulk(words, selected_indices, new_bulk_label,
                                         new_seen_value))
         /\ in_memory' = ApplyBulk(words, selected_indices, new_bulk_label,
                                    new_seen_value)
         /\ last' = [op |-> "bulk", filter |-> filter, offered |-> offered,
                     checked |-> selected_indices,
                     label |-> new_bulk_label, seen |-> new_seen_value]
         /\ UNCHANGED <<recently_seen, current_word, reveal, ratios, now, ticks, shown>>

Next ==
  \/ Tick
  \/ LearnDraw
  \/ EnglishDraw
  \/ ViewMixed
  \/ RevealMixed
  \/ CategoryDraw
  \/ CategoryReveal
  \/ PlainRun
  \/ AddWord
  \/ SetRatio
  \/ ResetAllLabels
  \/ ResetAllSeen
  \/ BulkUpdate

Spec == Init /\ [][Next]_vars

\* ------------------------------------------------ properties of one session

\* The step is a script run (not the clock).
IsRun == runs' = runs + 1

\* No two items of the list have keys equal ignoring case.
NoDupKeys(data) ==
  \A i, j \in DOMAIN data :
    Lower(data[i].swedish) = Lower(data[j].swedish) => i = j

\* C1: no step of a session makes two keys equal ignoring case; an add whose
\* key equals an existing key ignoring case returns false and leaves the item
\* list as it was, any other add returns true and appends one item with that
\* key, label "0%" and seen 0.
C1_AddKeepsKeysUnique ==
  [][ /\ NoDupKeys(file.data) => NoDupKeys(file'.data)
      /\ (IsRun /\ last'.op = "add" /\ last'.result # "fill") =>
           LET before == load_words(file)
               key == last'.swedish
               n == Len(before)
           IN IF \E i \in DOMAIN before : Lower(before[i].swedish) = Lower(key)
              THEN last'.result = "exists" /\ file'.data = before
              ELSE /\ last'.result = "added"
                   /\ Len(file'.data) = n + 1
                   /\ SubSeq(file'.data, 1, n) = before
                   /\ file'.data[n + 1].swedish = key
                   /\ file'.data[n + 1].label = "0%"
                   /\ file'.data[n + 1].seen = 0
    ]_vars

\* hund was refused because Hund is in the store.
C1_Witness ==
  /\ last.op = "add" /\ last.result = "exists" /\ last.swedish = hund
  /\ \E i \in DOMAIN file.data : file.data[i].swedish = Hund

SuccessfulMixtureDraw == last.op = "draw" /\ last.result = "ok"

\* C2: an item a mixture draw returns was not returned by a mixture draw of
\* the same drill direction 0 to COOLDOWN_SECONDS - 1 seconds earlier.
C2_CooldownSameDirection ==
  SuccessfulMixtureDraw => (last.gap = -1 \/ last.gap >= COOLDOWN_SECONDS)

\* The item is returned again COOLDOWN_SECONDS + 1 seconds after its last draw.
C2_Witness == SuccessfulMixtureDraw /\ last.gap = COOLDOWN_SECONDS + 1

\* C3: an item a mixture draw returns was not returned by a mixture draw of
\* either drill direction 0 to COOLDOWN_SECONDS - 1 seconds earlier.
C3_CooldownEitherDirection ==
  SuccessfulMixtureDraw =>
    /\ last.gap = -1 \/ last.gap >= COOLDOWN_SECONDS
    /\ last.xgap = -1 \/ last.xgap >= COOLDOWN_SECONDS

\* Every item of the pool has its exposure key of the given direction in the
\* cooldown map, stamped less than COOLDOWN_SECONDS ago.
AllCooling(words, field) ==
  \A i \in pool(words, ratios) :
    /\ words[i][field] \in DOMAIN recently_seen
    /\ now - recently_seen[words[i][field]] < COOLDOWN_SECONDS

\* C4: a mixture draw made while every pool item is cooling returns no
\* candidate, leaves the store, the current word and the reveal flag as they
\* were, and adds or restamps no entry of the cooldown map.
C4_ExhaustedDrawChangesNothing ==
  [][ (IsRun /\ last'.op = "draw" /\ AllCooling(load_words(file), last'.field)) =>
        /\ last'.result = "empty"
        /\ file' = file
        /\ current_word' = current_word
        /\ reveal' = reveal
        /\ \A k \in DOMAIN recently_seen' :
             k \in DOMAIN recently_seen /\ recently_seen'[k] = recently_seen[k]
    ]_vars

\* A draw found a non-empty pool all cooling.
C4_Witness ==
  /\ last.op = "draw" /\ last.result = "empty"
  /\ pool(load_words(file), ratios) # {}
  /\ AllCooling(load_words(file), last.field)

\* C7: a bulk update sets label and seen of the checked items, all of them
\* offered, to the targets, leaves every other item as it was, and persists
\* the whole list.
C7_BulkUpdateFrame ==
  [][ (IsRun /\ last'.op = "bulk") =>
        LET words == load_words(file) IN
        /\ last'.checked \subseteq last'.offered
        /\ file'.exists
        /\ DOMAIN file'.data = DOMAIN words
        /\ \A i \in DOMAIN words :
             IF i \in last'.checked
             THEN /\ file'.data[i].label = last'.label
                  /\ file'.data[i].seen = last'.seen
                  /\ file'.data[i].swedish = words[i].swedish
                  /\ file'.data[i].english = words[i].english
                  /\ file'.data[i].category = words[i].category
             ELSE file'.data[i] = words[i]
    ]_vars

\* Some item was checked and changed while an offered one, unchecked, kept
\* another label.
C7_Witness ==
  /\ last.op = "bulk" /\ last.checked # {}
  /\ \E i \in last.offered \ last.checked : file.data[i].label # last.label

SuccessfulDraw(l) == l.op \in {"draw", "category_draw"} /\ l.result = "ok"

\* C9: the reveal flag turns true only by the reveal button on a current word,
\* turns false only by a successful draw, and no run other than a successful
\* draw changes the current word.
C9_RevealStateMachine ==
  [][ /\ (~reveal /\ reveal') =>
           (IsRun /\ last'.op = "reveal" /\ current_word # None
              /\ current_word' = current_word)
      /\ (reveal /\ ~reveal') => (IsRun /\ SuccessfulDraw(last'))
      /\ current_word' # current_word => (IsRun /\ SuccessfulDraw(last'))
    ]_vars

\* A drawn word has been revealed.
C9_Witness == reveal /\ current_word # None /\ last.op = "reveal"

\* C10: reset_all_labels sets every label to "0%" and reset_all_seen every
\* seen to 0; each leaves the other fields, the number and the order of the
\* items as they were and persists the list.
C10_ResetOperations ==
  [][ /\ (IsRun /\ last'.op = "reset_labels") =>
           LET words == load_words(file) IN
           /\ file'.exists
           /\ DOMAIN file'.data = DOMAIN words
           /\ \A i \in DOMAIN words :
                file'.data[i] =
                  [swedish |-> words[i].swedish, english |-> words[i].english,
                   category |-> words[i].category, label |-> "0%",
                   seen |-> words[i].seen]
      /\ (IsRun /\ last'.op = "reset_seen") =>
           LET words == load_words(file) IN
           /\ file'.exists
           /\ DOMAIN file'.data = DOMAIN words
           /\ \A i \in DOMAIN words :
                file'.data[i] =
                  [swedish |-> words[i].swedish, english |-> words[i].english,
                   category |-> words[i].category, label |-> words[i].label,
                   seen |-> 0]
    ]_vars

\* Labels were reset in a store with a label other than "0%" and a seen
\* counter above 0.
C10_Witness ==
  /\ last.op = "reset_labels" /\ last.changed # {}
  /\ \E i \in DOMAIN file.data : file.data[i].seen > 0

\* C12: a successful mixture draw adds 1 to the seen counter of the item
\* chosen and changes no other item and no other field; the file then holds
\* the list in memory; the cooldown map gets the current time at the item's
\* exposure key of the page's direction, and no other entry is added or
\* restamped.
C12_DrawFrame ==
  [][ (IsRun /\ last'.op = "draw" /\ last'.result = "ok") =>
        LET words == load_words(file)
            i == last'.idx
            key == words[i][last'.field]
        IN /\ i \in DOMAIN words
           /\ file'.exists
           /\ DOMAIN file'.data = DOMAIN words
           /\ \A j \in DOMAIN words :
                file'.data[j] =
                  IF j = i
                  THEN [swedish |-> words[i].swedish, english |-> words[i].english,
                        category |-> words[i].category, label |-> words[i].label,
                        seen |-> words[i].seen + 1]
                  ELSE words[j]
           /\ in_memory' = file'.data
           /\ key \in DOMAIN recently_seen' /\ recently_seen'[key] = now'
           /\ \A k \in DOMAIN recently_seen' \ {key} :
                k \in DOMAIN recently_seen /\ recently_seen'[k] = recently_seen[k]
    ]_vars

\* A draw stamped its item beside an entry stamped COOLDOWN_SECONDS - 1
\* seconds earlier.
C12_Witness ==
  /\ SuccessfulMixtureDraw
  /\ \E k \in DOMAIN recently_seen : recently_seen[k] = now - (COOLDOWN_SECONDS - 1)
  /\ \E k \in DOMAIN recently_seen : recently_seen[k] = now

\* C13: a category draw leaves the cooldown map and the ratios as they were;
\* when it returns an item it adds 1 to that item's seen counter, changes
\* nothing else of the list and persists it; on an empty category it changes
\* neither the store nor the current word nor the reveal flag.  (That it can
\* return an item in cooldown: C13_Witness.)
C13_CategoryDrawFrame ==
  [][ (IsRun /\ last'.op = "category_draw") =>
        LET words == load_words(file) IN
        /\ recently_seen' = recently_seen
        /\ ratios' = ratios
        /\ IF last'.result = "ok"
           THEN /\ last'.idx \in DOMAIN words
                /\ file'.exists
                /\ file'.data = [words EXCEPT ![last'.idx].seen = @ + 1]
                /\ current_word' = file'.data[last'.idx]
           ELSE /\ \A i \in DOMAIN words : FALSE
                /\ file' = file
                /\ current_word' = current_word
                /\ reveal' = reveal
    ]_vars

\* The category draw returned an item a mixture draw had stamped at this
\* very time.
C13_Witness ==
  /\ last.op = "category_draw" /\ last.result = "ok"
  /\ file.data[last.idx].swedish \in DOMAIN recently_seen
  /\ recently_seen[file.data[last.idx].swedish] = now

\* The keys of the items, in the order of the list.
Keys(data) == [i \in DOMAIN data |-> data[i].swedish]

\* C14: the keys of the store before a step are a prefix of the keys after
\* it, and the list gets longer only by an add that returns true, by one item.
C14_NoRemovalNoReorder ==
  [][ LET before == Keys(file.data)
          after == Keys(file'.data)
      IN /\ Len(before) <= Len(after)
         /\ SubSeq(after, 1, Len(before)) = before
         /\ Len(after) > Len(before) =>
              /\ IsRun /\ last'.op = "add" /\ last'.result = "added"
              /\ Len(after) = Len(before) + 1
    ]_vars

\* Hund was added behind katt and hand after a draw of katt.
C14_Witness ==
  /\ last.op = "add" /\ last.result = "added"
  /\ Keys(file.data) = <<katt, hand, Hund>>
  /\ file.data[1].seen = 3

\* C16: a mixture draw request keeps, with its timestamp, every entry of the
\* cooldown map stamped COOLDOWN_SECONDS or fewer seconds ago, and removes
\* every entry stamped longer ago (the draw may then stamp the key anew).
C16_PruneKeepsWithinWindow ==
  [][ (IsRun /\ last'.op = "draw") =>
        \A k \in DOMAIN recently_seen :
          IF now' - recently_seen[k] <= COOLDOWN_SECONDS
          THEN k \in DOMAIN recently_seen' /\ recently_seen'[k] = recently_seen[k]
          ELSE k \notin DOMAIN recently_seen' \/ recently_seen'[k] = now'
    ]_vars

InCooldown(words, i, field, rs, t) ==
  words[i][field] \in DOMAIN rs /\ t - rs[words[i][field]] < COOLDOWN_SECONDS

\* C18 as stated: a mixture draw made while some item of the pool is not in
\* cooldown returns an item.
C18_DrawReturnsWhenPoolNotCooling ==
  [][ (IsRun /\ last'.op = "draw") =>
        LET words == load_words(file) IN
        (\E i \in pool(words, ratios) :
           ~InCooldown(words, i, last'.field, recently_seen, now'))
          => last'.result = "ok"
    ]_vars

\* C18 amended: a mixture draw returns no candidate only when every item of
\* some list select_random_mixture can return is in cooldown (the empty list
\* of an empty pool included); when every such list holds an item not in
\* cooldown the draw returns an item, and the item returned is not in cooldown.
C18_EmptyOnlyWhenSampleCooling ==
  [][ (IsRun /\ last'.op = "draw") =>
        LET words == load_words(file)
            cooling(i) == InCooldown(words, i, last'.field, recently_seen, now')
        IN /\ last'.result = "empty" =>
                \E mix \in select_random_mixture(words, ratios) :
                  \A j \in DOMAIN mix : cooling(mix[j])
           /\ last'.result = "ok" => ~cooling(last'.idx)
    ]_vars

\* A draw returned no candidate while an item of the pool was not in cooldown.
C18_Witness ==
  /\ last.op = "draw" /\ last.result = "empty"
  /\ \E i \in pool(load_words(file), ratios) :
       ~InCooldown(load_words(file), i, last.field, recently_seen, now)

\* C19: when a script run has ended, the file holds the word list the run
\* held in memory, complete and in the same order (no file: the empty list).
C19_StoreEqualsMemory ==
  runs > 0 => IF file.exists THEN file.data = in_memory ELSE in_memory = <<>>

\* A run normalized a store written without labels or seen counters, and the
\* file now holds the normalized list.
C19_Witness ==
  /\ runs = 1 /\ last.op = "view"
  /\ file.exists /\ in_memory = load_words(LegacyStore) /\ file.data = in_memory

\* ----------------------------------------- select_random_mixture on its own

\* Items told apart by their place in the list; the label is what the mixture reads.
MixItem(label) ==
  [swedish |-> katt, english |-> cat, category |-> "animals", label |-> label, seen |-> 0]

MixLabels == {"0%", "25%", "75%"}

MixStores ==
  {save_words(w) :
     w \in UNION {[1..n -> {MixItem(l) : l \in MixLabels}] : n \in 0..MaxMixWords}}

\* Ratio mixtures: the default, two an admin can set, and one without the
\* keys "25%", "50%" and "100%".
MixRatios ==
  {DefaultRatios,
   [DefaultRatios EXCEPT !["0%"] = 100],
   [DefaultRatios EXCEPT !["0%"] = 0, !["75%"] = 100],
   [l \in {"0%", "75%"} |-> IF l = "0%" THEN 60 ELSE 0]}

InitMix ==
  /\ file \in MixStores
  /\ ratios \in MixRatios
  /\ mixture = NoMixture
  /\ recently_seen = NoEntries
  /\ current_word = None
  /\ reveal = FALSE
  /\ now = 0
  /\ ticks = 0
  /\ runs = 0
  /\ last = [op |-> "start"]
  /\ shown = NoEntries
  /\ in_memory = <<>>
  /\ sess = NoSessions
  /\ ideal = <<>>
  /\ stale = FALSE

\* select_random_mixture(words, st.session_state.ratios) is called.
SelectMixture ==
  /\ mixture = NoMixture
  /\ mixture' \in select_random_mixture(load_words(file), ratios)
  /\ UNCHANGED <<file, drillVars, concVars>>

NextMix == SelectMixture

SpecMix == InitMix /\ [][NextMix]_vars

\* C8: the list select_random_mixture returns holds an item of every label
\* that is a key of weight 0 with a non-empty bucket.
C8_MixtureFloor ==
  mixture # NoMixture =>
    LET words == load_words(file) IN
    \A L \in DOMAIN ratios :
      (ratios[L] = 0 /\ \E i \in DOMAIN words : words[i].label = L) =>
        \E j \in DOMAIN mixture : words[mixture[j]].label = L

\* Two items of label "75%", weight 0, and one of them in the list returned.
C8_Witness ==
  /\ mixture # NoMixture
  /\ "75%" \in DOMAIN ratios /\ ratios["75%"] = 0
  /\ Cardinality({i \in DOMAIN file.data : file.data[i].label = "75%"}) = 2
  /\ Cardinality({j \in DOMAIN mixture : file.data[mixture[j]].label = "75%"}) = 1

\* C15: the list select_random_mixture returns holds no item twice, only
\* items whose label is a key of the ratios, and of every key exactly
\* min(|bucket|, max(1, floor(|pool| * weight))) items of that label.
C15_StageAComposition ==
  mixture # NoMixture =>
    LET words == load_words(file)
        n == Cardinality({i \in DOMAIN words : words[i].label \in DOMAIN ratios})
    IN /\ \A j, k \in DOMAIN mixture : mixture[j] = mixture[k] => j = k
       /\ \A j \in DOMAIN mixture :
            mixture[j] \in DOMAIN words /\ words[mixture[j]].label \in DOMAIN ratios
       /\ \A L \in DOMAIN ratios :
            LET b == Cardinality({i \in DOMAIN words : words[i].label = L})
                c == (n * ratios[L]) \div 100
                k == IF c >= 1 THEN c ELSE 1
            IN Cardinality({j \in DOMAIN mixture : words[mixture[j]].label = L}) =
                 (IF b <= k THEN b ELSE k)

\* Two items of label "0%" beside one whose label "25%" is no key of the
\* ratios: the list returned holds one item.
C15_Witness ==
  /\ mixture # NoMixture
  /\ "25%" \notin DOMAIN ratios
  /\ Cardinality({i \in DOMAIN file.data : file.data[i].label = "0%"}) = 2
  /\ \E i \in DOMAIN file.data : file.data[i].label = "25%"
  /\ Len(mixture) = 1

\* ------------------------------------------------------ load_words on its own

\* The fields an item can have in the file beside the three it always has.
LoadFields ==
  {lf @@ sf : lf \in {NoEntries, "label" :> "0%", "label" :> "75%"},
              sf \in {NoEntries, "seen" :> 0, "seen" :> 2}}

LoadItems ==
  {[swedish |-> katt, english |-> cat, category |-> "animals"] @@ x : x \in LoadFields}

\* Well-formed stores: no file, or a list of items each with or without a
\* label and with or without a seen counter.
LoadStores ==
  {NoFile} \cup
  {save_words(w) : w \in UNION {[1..n -> LoadItems] : n \in 0..MaxLoadWords}}

InitLoad ==
  /\ file \in LoadStores
  /\ in_memory = <<>>
  /\ runs = 0
  /\ last = [op |-> "start"]
  /\ recently_seen = NoEntries
  /\ current_word = None
  /\ reveal = FALSE
  /\ ratios = DefaultRatios
  /\ now = 0
  /\ ticks = 0
  /\ shown = NoEntries
  /\ mixture = NoMixture
  /\ sess = NoSessions
  /\ ideal = <<>>
  /\ stale = FALSE

\* load_words() is called; the history keeps the store the first call found,
\* the store this call found and the list the call before returned.
Load ==
  /\ runs < MaxLoads
  /\ runs' = runs + 1
  /\ in_memory' = load_words(file)
  /\ file' = FileAfterLoad(file)
  /\ last' = [op |-> "load", found |-> IF runs = 0 THEN file ELSE last.found,
              before |-> file, prev |-> in_memory]
  /\ UNCHANGED <<recently_seen, current_word, reveal, ratios, now, ticks, shown,
                 mixVars, concVars>>

NextLoad == Load

SpecLoad == InitLoad /\ [][NextLoad]_vars

\* C11: the list a load returns and the store it leaves hold every item of
\* the store found, in order, each with a label and a seen counter ("0%" and
\* 0 where missing, the values found otherwise); a second load returns the
\* same list as the first and leaves the store the first left.
C11_LoadIdempotent ==
  last.op = "load" =>
    /\ DOMAIN in_memory = DOMAIN last.found.data
    /\ \A i \in DOMAIN in_memory :
         LET w == in_memory[i]
             f == last.found.data[i]
         IN /\ DOMAIN w = {"swedish", "english", "category", "label", "seen"}
            /\ w.swedish = f.swedish /\ w.english = f.english
            /\ w.category = f.category
            /\ w.label = (IF "label" \in DOMAIN f THEN f.label ELSE "0%")
            /\ w.seen = (IF "seen" \in DOMAIN f THEN f.seen ELSE 0)
    /\ ~last.found.exists => (~file.exists /\ in_memory = <<>>)
    /\ last.found.exists => (file.exists /\ file.data = in_memory)
    /\ runs >= 2 => (in_memory = last.prev /\ file = last.before)

\* Loaded twice: a store with an item lacking the label and an item that has
\* label "75%" and lacks the seen counter.
C11_Witness ==
  /\ last.op = "load" /\ runs = 2
  /\ \E i, j \in DOMAIN last.found.data :
       /\ "label" \notin DOMAIN last.found.data[i]
       /\ DOMAIN last.found.data[j] = {"swedish", "english", "category", "label"}
       /\ last.found.data[j].label = "75%"
       /\ in_memory[j].label = "75%" /\ in_memory[j].seen = 0

\* ------------------------------------------------------ concurrent sessions

Sessions == {"s1", "s2"}

\* What a session's script run does after the load of main().
ConcJobs ==
  {[op |-> "add", in |-> <<Hund, dog, "animals">>],
   [op |-> "add", in |-> <<hund, dog, "animals">>],
   [op |-> "draw"], [op |-> "reset_labels"], [op |-> "view"]}

\* A normalized store left by earlier sessions.
ConcStore ==
  [exists |-> TRUE,
   data |-> <<[swedish |-> katt, english |-> cat, category |-> "animals",
               label |-> "75%", seen |-> 2]>>]

ConcStores == {NoFile, ConcStore}

IdleSession ==
  [pc |-> "idle", job |-> [op |-> "view"], words |-> <<>>, fresh |-> TRUE, jobs |-> 0,
   recently_seen |-> NoEntries]

InitConc ==
  /\ file \in ConcStores
  /\ sess = [s \in Sessions |-> IdleSession]
  /\ ideal = load_words(file)
  /\ stale = FALSE
  /\ mixture = NoMixture
  /\ recently_seen = NoEntries
  /\ current_word = None
  /\ reveal = FALSE
  /\ ratios = DefaultRatios
  /\ now = 0
  /\ ticks = 0
  /\ runs = 0
  /\ last = [op |-> "start"]
  /\ shown = NoEntries
  /\ in_memory = <<>>

\* Session s writes the list data to the file: the other sessions' lists are
\* no longer those of the file.
Write(s, data, pc2, rs2) ==
  /\ file' = save_words(data)
  /\ stale' = (stale \/ ~sess[s].fresh)
  /\ sess' = [t \in Sessions |->
                IF t = s
                THEN [sess[s] EXCEPT !.pc = pc2, !.words = data, !.fresh = TRUE,
                                     !.recently_seen = rs2]
                ELSE [sess[t] EXCEPT !.fresh = FALSE]]

\* Where a session goes when a load_words call returns.
AfterLoad(pc, job, words) ==
  CASE pc \in {"main_read", "main_save"} ->
         (CASE job.op = "add" -> "exists_read"
            [] job.op = "draw" -> "draw"
            [] job.op = "reset_labels" -> "reset"
            [] OTHER -> "idle")
    [] pc \in {"exists_read", "exists_save"} ->
         IF \E i \in DOMAIN words : Lower(words[i].swedish) = Lower(job.in[1])
         THEN "idle" ELSE "add_read"
    [] OTHER -> "append"

\* A script run starts: a page is opened or a button pressed.
Start(s) ==
  /\ sess[s].pc = "idle"
  /\ sess[s].jobs < MaxJobs
  /\ \E job \in ConcJobs :
       sess' = [sess EXCEPT ![s].pc = "main_read", ![s].job = job, ![s].jobs = @ + 1]
  /\ UNCHANGED <<file, ideal, stale, drillVars, mixVars>>

\* load_words reads the file; with no file it returns at once.
Read(s) ==
  /\ sess[s].pc \in {"main_read", "exists_read", "add_read"}
  /\ LET words == load_words(file)
         pc2 == IF file.exists
                THEN (CASE sess[s].pc = "main_read" -> "main_save"
                        [] sess[s].pc = "exists_read" -> "exists_save"
                        [] OTHER -> "add_save")
                ELSE AfterLoad(sess[s].pc, sess[s].job, words)
     IN sess' = [sess EXCEPT ![s].pc = pc2, ![s].words = words, ![s].fresh = TRUE]
  /\ UNCHANGED <<file, ideal, stale, drillVars, mixVars>>

\* load_words saves the list it read.
LoadSave(s) ==
  /\ sess[s].pc \in {"main_save", "exists_save", "add_save"}
  /\ Write(s, sess[s].words, AfterLoad(sess[s].pc, sess[s].job, sess[s].words),
           sess[s].recently_seen)
  /\ UNCHANGED <<ideal, drillVars, mixVars>>

\* add_word appends the new item to the list it loaded and saves.
AppendSave(s) ==
  /\ sess[s].pc = "append"
  /\ LET new == NewWord(sess[s].job.in[1], sess[s].job.in[2], sess[s].job.in[3]) IN
     /\ Write(s, Append(sess[s].words, new), "idle", sess[s].recently_seen)
     /\ ideal' = Append(ideal, new)
  /\ UNCHANGED <<drillVars, mixVars>>

\* Learn New Words with "Draw" pressed, on the list main() loaded.
DrawSave(s) ==
  /\ sess[s].pc = "draw"
  /\ LET words == sess[s].words
         rs == Prune(sess[s].recently_seen, now)
     IN \E mix \in select_random_mixture(words, ratios) :
          LET available == available_words(words, mix, rs, "swedish") IN
          IF available # <<>>
          THEN \E j \in DOMAIN available :
                 LET selected == available[j]
                     words2 == [words EXCEPT ![selected].seen = @ + 1]
                 IN /\ Write(s, words2, "idle", Stamp(rs, words2[selected].swedish, now))
                    /\ ideal' = IF selected \in DOMAIN ideal
                                THEN [ideal EXCEPT ![selected].seen = @ + 1]
                                ELSE ideal
          ELSE /\ sess' = [sess EXCEPT ![s].pc = "idle", ![s].recently_seen = rs]
               /\ UNCHANGED <<file, ideal, stale>>
  /\ UNCHANGED <<drillVars, mixVars>>

\* The Admin Panel with "Reset All Labels" pressed, on the list main() loaded.
ResetSave(s) ==
  /\ sess[s].pc = "reset"
  /\ Write(s, reset_all_labels(sess[s].words), "idle", sess[s].recently_seen)
  /\ ideal' = reset_all_labels(ideal)
  /\ UNCHANGED <<drillVars, mixVars>>

NextConc ==
  \E s \in Sessions :
    \/ Start(s)
    \/ Read(s)
    \/ LoadSave(s)
    \/ AppendSave(s)
    \/ DrawSave(s)
    \/ ResetSave(s)

SpecConc == InitConc /\ [][NextConc]_vars

\* C5: the store never holds two keys equal ignoring case, whatever the
\* interleaving of the sessions' adds.
C5_NoDuplicateKeysConcurrent == NoDupKeys(file.data)

\* C20: the save inside a load_words call leaves the content of the file as
\* it was, whatever the other session did since the call read the file.
C20_LoadSaveChangesNothing ==
  [][ (\E s \in Sessions :
         /\ sess[s].pc \in {"main_save", "exists_save", "add_save"}
         /\ sess'[s].pc # sess[s].pc)
        => file'.data = file.data
    ]_vars

\* An update a session completed is missing from the file: an item added is
\* not at its place, a seen counter is below the draws made, a label is not
\* the one last set.
Lost ==
  LET data == load_words(file) IN
  \E i \in DOMAIN ideal :
    \/ i \notin DOMAIN data
    \/ data[i].swedish # ideal[i].swedish
    \/ data[i].seen < ideal[i].seen
    \/ data[i].label # ideal[i].label

\* C6: an update is missing from the file only after some session saved a
\* list it had read before another session's save (and such a loss is
\* reachable: C6_Witness).
C6_LossOnlyByStaleOverwrite == Lost => stale

\* Both sessions are done and a completed update is missing from the file.
C6_Witness == Lost /\ \A s \in Sessions : sess[s].pc = "idle"

====
